---- MODULE Spec2Model ----
(***************************************************************************)
(* dl::optional_reference<T> (src/optional_reference.hpp): a non-owning,   *)
(* nullable wrapper around one raw pointer, m_ptr.                         *)
(*                                                                         *)
(* The model holds a few caller-owned objects of type T (the heap), a few  *)
(* wrapper variables (slots) of type optional_reference<T> or              *)
(* optional_reference<const T>, the build configuration (NDEBUG or not),   *)
(* and a record of the last call with what it returned.                    *)
(*                                                                         *)
(* The element type T is bool: the conversion operator to                  *)
(* optional_reference<const T> instantiates only when a T can be made from *)
(* a pointer, so bool is an instantiation in which every member can be     *)
(* called. With T = int the same program without the conversion compiles,  *)
(* and behaves as modelled here.                                           *)
(*                                                                         *)
(* A reference (T&) is represented by the address of the object it is      *)
(* bound to; addresses are integers and nullptr is address 0.              *)
(***************************************************************************)
EXTENDS Integers, FiniteSets

VARIABLES
  w,       \* w[i]: the wrapper variable in slot i: [st, cq, m_ptr]
  heap,    \* heap[a]: the caller's object at address a: [live, val]
  last,    \* the last call: what was called, on which slot, what came back
  ndebug   \* TRUE: release build (NDEBUG defined, assert compiled out)

vars == <<w, heap, last, ndebug>>

(***************************************************************************)
(* Bounds of the model.                                                    *)
(***************************************************************************)
NumObjs == 1
NumSlots == 2

nullptr == 0

Objs == 1 .. NumObjs
Slots == 1 .. NumSlots
\* The address of the temporary the const conversion materialises; its
\* lifetime ends with the full-expression that created it.
TempAddr == NumObjs + 1
Addrs == {nullptr} \cup Objs \cup {TempAddr}

\* The values of a bool object: false and true.
Values == {0, 1}

NoSlot == [st |-> FALSE, cq |-> FALSE, m_ptr |-> nullptr]
Wrapper(c, p) == [st |-> TRUE, cq |-> c, m_ptr |-> p]

Live(a) == a \in Objs /\ heap[a].live

\* An object whose lifetime has ended: it has no value any more.
Dead == [live |-> FALSE, val |-> 0]

(***************************************************************************)
(* The member functions, as functions of the stored pointer.               *)
(***************************************************************************)

\* optional_reference() : m_ptr(nullptr)
ctor_default == nullptr

\* optional_reference(nullref_t) : m_ptr(nullptr)
ctor_nullref == nullptr

\* A reference constructor that forgets to store the address.
ctor_ref_forgetful(reference) == nullptr

\* optional_reference(T& reference) : m_ptr(std::addressof(reference))
ctor_ref(reference) == reference

\* A pointer constructor pasted from the reference constructor: it stores
\* std::addressof of its own parameter, which is never null.
ctor_ptr_addressof(reference) == NumObjs + 1

\* optional_reference(T* reference) : m_ptr(reference)
ctor_ptr(reference) == reference

\* A boolean conversion with the test inverted.
operator_bool_negated(m_ptr) == m_ptr = nullptr

\* operator bool(): return m_ptr;   (pointer-to-bool conversion)
operator_bool(m_ptr) == m_ptr # nullptr

\* has_ref(): return m_ptr;
has_ref(m_ptr) == m_ptr # nullptr

\* ptr(): return m_ptr;
ptr(m_ptr) == m_ptr

Ret(k, a) == [kind |-> k, addr |-> a]

\* A ref() that forgets the presence check.
ref_unchecked(m_ptr) == Ret("ref", m_ptr)

\* ref(): if (!m_ptr) throw bad_optional_reference_access(); return *m_ptr;
ref(m_ptr) ==
  IF m_ptr = nullptr THEN Ret("throw", nullptr) ELSE Ret("ref", m_ptr)

\* An operator* that reports emptiness the way ref() does.
operator_deref_throwing(m_ptr, nd) ==
  IF m_ptr = nullptr THEN {Ret("throw", nullptr)} ELSE {Ret("ref", m_ptr)}

\* operator*(): assert(m_ptr); return *m_ptr;
\* The set of outcomes: with assert compiled in, an empty wrapper aborts;
\* with NDEBUG, *nullptr is undefined: the call yields a null reference or
\* the program traps.
operator_deref(m_ptr, nd) ==
  IF m_ptr = nullptr
    THEN IF nd THEN {Ret("ref", nullptr), Ret("crash", nullptr)}
               ELSE {Ret("abort", nullptr)}
    ELSE {Ret("ref", m_ptr)}

\* operator->(): assert(m_ptr); return m_ptr;
operator_arrow(m_ptr, nd) ==
  IF m_ptr = nullptr /\ ~nd THEN {Ret("abort", nullptr)}
                            ELSE {Ret("value", m_ptr)}

\* A reset that does nothing when a reference is held.
reset_keep(m_ptr) == m_ptr

\* reset(): m_ptr = nullptr;
\* (The older variant of the header declares reset() const; that body is
\* ill-formed once instantiated, so only this reset() can ever run.)
reset(m_ptr) == nullptr

\* operator optional_reference<const T>(): return optional_reference<const T>(this);
\* `this` is a const optional_reference<T>*, not a T*. The only viable
\* constructor is optional_reference<const T>(const T&), bound to a temporary
\* T converted from the (never null) pointer `this`: the result holds the
\* address of that temporary, whatever m_ptr is.
operator_const(m_ptr) == ctor_ref(TempAddr)

\* An opt_ref that drops its argument.
opt_ref_empty(reference) == ctor_default

\* opt_ref(T& reference): return optional_reference<T>(reference);
opt_ref(reference) == ctor_ref(reference)

\* opt_cref(const T& reference): return optional_reference<const T>(reference);
opt_cref(reference) == ctor_ref(reference)

\* What a caller can observe of a wrapper holding m_ptr, in build nd.
Observe(m_ptr, nd) ==
  [has_ref |-> has_ref(m_ptr),
   bool    |-> operator_bool(m_ptr),
   ptr     |-> ptr(m_ptr),
   ref     |-> ref(m_ptr),
   deref   |-> operator_deref(m_ptr, nd),
   arrow   |-> operator_arrow(m_ptr, nd)]

(***************************************************************************)
(* The record of the last call.                                            *)
(***************************************************************************)
Call(op, i, s, pre, k, b, a) ==
  [op |-> op, w |-> i, src |-> s, pre |-> pre, kind |-> k, b |-> b, addr |-> a]

Running == last.kind \notin {"abort", "crash"}

Init ==
  /\ ndebug \in BOOLEAN
  /\ heap \in [Objs -> [live : {TRUE}, val : Values]]
  /\ w = [i \in Slots |-> NoSlot]
  /\ last = Call("start", 0, 0, nullptr, "none", FALSE, nullptr)

(***************************************************************************)
(* Construction. c is the const-qualification of the wrapper's element     *)
(* type (TRUE: optional_reference<const T>). The argument of a constructor  *)
(* is an lvalue or pointer whose type converts to the parameter's; for the *)
(* factories cx is the const-qualification of the argument's type, from    *)
(* which T is deduced.                                                     *)
(***************************************************************************)
DefaultConstruct(i, c) ==
  /\ Running /\ ~w[i].st
  /\ w' = [w EXCEPT ![i] = Wrapper(c, ctor_default)]
  /\ last' = Call("ctor_default", i, 0, nullptr, "none", FALSE, nullptr)
  /\ UNCHANGED <<heap, ndebug>>

NullrefConstruct(i, c) ==
  /\ Running /\ ~w[i].st
  /\ w' = [w EXCEPT ![i] = Wrapper(c, ctor_nullref)]
  /\ last' = Call("ctor_nullref", i, 0, nullptr, "none", FALSE, nullptr)
  /\ UNCHANGED <<heap, ndebug>>

RefConstruct(i, c, x) ==
  /\ Running /\ ~w[i].st
  /\ Live(x)
  /\ w' = [w EXCEPT ![i] = Wrapper(c, ctor_ref(x))]
  /\ last' = Call("ctor_ref", i, 0, nullptr, "none", FALSE, x)
  /\ UNCHANGED <<heap, ndebug>>

PtrConstruct(i, c, p) ==
  /\ Running /\ ~w[i].st
  /\ w' = [w EXCEPT ![i] = Wrapper(c, ctor_ptr(p))]
  /\ last' = Call("ctor_ptr", i, 0, nullptr, "none", FALSE, p)
  /\ UNCHANGED <<heap, ndebug>>

\* auto o = opt_ref(x): T is deduced from the argument, const included.
OptRef(i, x, cx) ==
  /\ Running /\ ~w[i].st
  /\ Live(x)
  /\ w' = [w EXCEPT ![i] = Wrapper(cx, opt_ref(x))]
  /\ last' = Call("opt_ref", i, 0, nullptr, "none", cx, x)
  /\ UNCHANGED <<heap, ndebug>>

\* auto o = opt_cref(x): always optional_reference<const T>.
OptCref(i, x, cx) ==
  /\ Running /\ ~w[i].st
  /\ Live(x)
  /\ w' = [w EXCEPT ![i] = Wrapper(TRUE, opt_cref(x))]
  /\ last' = Call("opt_cref", i, 0, nullptr, "none", cx, x)
  /\ UNCHANGED <<heap, ndebug>>

\* The implicitly-defined copy constructor: copies m_ptr.
CopyConstruct(i, j) ==
  /\ Running /\ ~w[i].st /\ w[j].st
  /\ w' = [w EXCEPT ![i] = Wrapper(w[j].cq, w[j].m_ptr)]
  /\ last' = Call("copy", i, j, nullptr, "none", FALSE, nullptr)
  /\ UNCHANGED <<heap, ndebug>>

\* optional_reference<const T> c = o;
ConstConvert(i, j) ==
  /\ Running /\ ~w[i].st /\ w[j].st /\ ~w[j].cq
  /\ w' = [w EXCEPT ![i] = Wrapper(TRUE, operator_const(w[j].m_ptr))]
  /\ last' = Call("const_conv", i, j, nullptr, "none", FALSE, nullptr)
  /\ UNCHANGED <<heap, ndebug>>

(***************************************************************************)
(* Rebinding: the implicitly-defined copy assignment, from another wrapper *)
(* of the same type or from a temporary made by a converting constructor.  *)
(***************************************************************************)
Assign(i, j) ==
  /\ Running /\ w[i].st /\ w[j].st /\ i # j /\ w[i].cq = w[j].cq
  /\ w' = [w EXCEPT ![i].m_ptr = w[j].m_ptr]
  /\ last' = Call("assign", i, j, w[i].m_ptr, "none", FALSE, nullptr)
  /\ UNCHANGED <<heap, ndebug>>

AssignRef(i, x) ==
  /\ Running /\ w[i].st
  /\ Live(x)
  /\ w' = [w EXCEPT ![i].m_ptr = ctor_ref(x)]
  /\ last' = Call("assign_ref", i, 0, w[i].m_ptr, "none", FALSE, x)
  /\ UNCHANGED <<heap, ndebug>>

AssignNullref(i) ==
  /\ Running /\ w[i].st
  /\ w' = [w EXCEPT ![i].m_ptr = ctor_nullref]
  /\ last' = Call("assign_nullref", i, 0, w[i].m_ptr, "none", FALSE, nullptr)
  /\ UNCHANGED <<heap, ndebug>>

(***************************************************************************)
(* Observers and access.                                                   *)
(***************************************************************************)
HasRef(i) ==
  /\ Running /\ w[i].st
  /\ last' = Call("has_ref", i, 0, w[i].m_ptr, "bool", has_ref(w[i].m_ptr), nullptr)
  /\ UNCHANGED <<w, heap, ndebug>>

OperatorBool(i) ==
  /\ Running /\ w[i].st
  /\ last' = Call("operator_bool", i, 0, w[i].m_ptr, "bool",
                  operator_bool(w[i].m_ptr), nullptr)
  /\ UNCHANGED <<w, heap, ndebug>>

Ptr(i) ==
  /\ Running /\ w[i].st
  /\ last' = Call("ptr", i, 0, w[i].m_ptr, "value", FALSE, ptr(w[i].m_ptr))
  /\ UNCHANGED <<w, heap, ndebug>>

Ref(i) ==
  /\ Running /\ w[i].st
  /\ LET r == ref(w[i].m_ptr)
     IN  last' = Call("ref", i, 0, w[i].m_ptr, r.kind, FALSE, r.addr)
  /\ UNCHANGED <<w, heap, ndebug>>

Deref(i) ==
  /\ Running /\ w[i].st
  /\ \E r \in operator_deref(w[i].m_ptr, ndebug) :
       last' = Call("operator_deref", i, 0, w[i].m_ptr, r.kind, FALSE, r.addr)
  /\ UNCHANGED <<w, heap, ndebug>>

Arrow(i) ==
  /\ Running /\ w[i].st
  /\ \E r \in operator_arrow(w[i].m_ptr, ndebug) :
       last' = Call("operator_arrow", i, 0, w[i].m_ptr, r.kind, FALSE, r.addr)
  /\ UNCHANGED <<w, heap, ndebug>>

\* A reset that reaches every wrapper holding the same pointer.
ResetShared(i) ==
  /\ Running /\ w[i].st
  /\ w' = [j \in Slots |->
             IF w[j].st /\ w[j].m_ptr = w[i].m_ptr
               THEN Wrapper(w[j].cq, reset(w[j].m_ptr)) ELSE w[j]]
  /\ last' = Call("reset", i, 0, w[i].m_ptr, "none", FALSE, nullptr)
  /\ UNCHANGED <<heap, ndebug>>

Reset(i) ==
  /\ Running /\ w[i].st
  /\ w' = [w EXCEPT ![i].m_ptr = reset(w[i].m_ptr)]
  /\ last' = Call("reset", i, 0, w[i].m_ptr, "none", FALSE, nullptr)
  /\ UNCHANGED <<heap, ndebug>>

\* A destructor that owns: it ends the referenced object's lifetime.
DestroyOwning(i) ==
  /\ Running /\ w[i].st
  /\ w' = [w EXCEPT ![i] = NoSlot]
  /\ heap' = [a \in Objs |->
                IF a = w[i].m_ptr THEN Dead ELSE heap[a]]
  /\ last' = Call("destroy", i, 0, w[i].m_ptr, "none", FALSE, nullptr)
  /\ UNCHANGED ndebug

\* The implicit, trivial destructor: the wrapper variable goes out of scope.
Destroy(i) ==
  /\ Running /\ w[i].st
  /\ w' = [w EXCEPT ![i] = NoSlot]
  /\ last' = Call("destroy", i, 0, w[i].m_ptr, "none", FALSE, nullptr)
  /\ UNCHANGED <<heap, ndebug>>

(***************************************************************************)
(* The caller: it writes through the T& or T* the last access returned     *)
(* (when T is not const and the object is alive), and it ends the lifetime *)
(* of its own objects whenever it likes.                                   *)
(***************************************************************************)
WriteVia(v) ==
  /\ Running
  /\ last.op \in {"ref", "operator_deref", "operator_arrow"}
  /\ last.kind \in {"ref", "value"}
  /\ ~w[last.w].cq
  /\ Live(last.addr)
  /\ v \in Values /\ v # heap[last.addr].val
  /\ heap' = [heap EXCEPT ![last.addr].val = v]
  /\ last' = Call("write", last.w, 0, w[last.w].m_ptr, "none", FALSE, last.addr)
  /\ UNCHANGED <<w, ndebug>>

EndLifetime(x) ==
  /\ Running /\ Live(x)
  /\ heap' = [heap EXCEPT ![x] = Dead]
  /\ last' = Call("end_lifetime", 0, 0, nullptr, "none", FALSE, x)
  /\ UNCHANGED <<w, ndebug>>

Next ==
  \/ \E i \in Slots, c \in BOOLEAN : DefaultConstruct(i, c)
  \/ \E i \in Slots, c \in BOOLEAN : NullrefConstruct(i, c)
  \/ \E i \in Slots, c \in BOOLEAN, x \in Objs : RefConstruct(i, c, x)
  \/ \E i \in Slots, c \in BOOLEAN, p \in {nullptr} \cup Objs : PtrConstruct(i, c, p)
  \/ \E i \in Slots, x \in Objs, cx \in BOOLEAN : OptRef(i, x, cx)
  \/ \E i \in Slots, x \in Objs, cx \in BOOLEAN : OptCref(i, x, cx)
  \/ \E i \in Slots, j \in Slots : CopyConstruct(i, j)
  \/ \E i \in Slots, j \in Slots : ConstConvert(i, j)
  \/ \E i \in Slots, j \in Slots : Assign(i, j)
  \/ \E i \in Slots, x \in Objs : AssignRef(i, x)
  \/ \E i \in Slots : AssignNullref(i)
  \/ \E i \in Slots : HasRef(i)
  \/ \E i \in Slots : OperatorBool(i)
  \/ \E i \in Slots : Ptr(i)
  \/ \E i \in Slots : Ref(i)
  \/ \E i \in Slots : Deref(i)
  \/ \E i \in Slots : Arrow(i)
  \/ \E i \in Slots : Reset(i)
  \/ \E i \in Slots : Destroy(i)
  \/ \E v \in Values : WriteVia(v)
  \/ \E x \in Objs : EndLifetime(x)

Spec == Init /\ [][Next]_vars

TypeOK ==
  /\ ndebug \in BOOLEAN
  /\ heap \in [Objs -> [live : BOOLEAN, val : Values]]
  /\ w \in [Slots -> [st : BOOLEAN, cq : BOOLEAN, m_ptr : Addrs]]
  /\ last.w \in Slots \cup {0} /\ last.src \in Slots \cup {0}
  /\ last.pre \in Addrs /\ last.addr \in Addrs /\ last.b \in BOOLEAN

(***************************************************************************)
(* Properties.                                                             *)
(***************************************************************************)
Rebinds == {"assign", "assign_ref", "assign_nullref"}
Unchecked == {"operator_deref", "operator_arrow"}

\* C1: ref() on an absent wrapper throws bad_optional_reference_access on
\* every call, and the call changes no wrapper and no object.
C1_RefOnAbsentThrows ==
  [][ (last'.op = "ref" /\ w[last'.w].m_ptr = nullptr) =>
        /\ last'.kind = "throw"
        /\ w' = w
        /\ heap' = heap ]_vars

C1_Witness ==
  /\ last.op = "ref" /\ last.kind = "throw"
  /\ w[last.w].st /\ w[last.w].m_ptr = nullptr

\* C2: a wrapper constructed from a reference to x is present, and ref(),
\* operator* and operator-> all yield the address of x itself.
C2_RefConstructYieldsX ==
  last.op = "ctor_ref" =>
    LET p == w[last.w].m_ptr
        x == last.addr
    IN  /\ has_ref(p)
        /\ ref(p) = Ret("ref", x)
        /\ operator_deref(p, ndebug) = {Ret("ref", x)}
        /\ operator_arrow(p, ndebug) = {Ret("value", x)}

C2_Witness ==
  /\ last.op = "ctor_ref" /\ Live(last.addr)
  /\ w[last.w].m_ptr = last.addr

\* C3: the const-converted wrapper reports the same presence as its source
\* and, when present, holds the same address.
C3_ConstConvPreserves ==
  last.op = "const_conv" =>
    LET from == w[last.src].m_ptr
        to   == w[last.w].m_ptr
    IN  /\ has_ref(to) <=> has_ref(from)
        /\ has_ref(from) => ptr(to) = ptr(from)

\* C4: after reset() the wrapper is absent, whatever it held; reset() on an
\* absent wrapper changes nothing; reset() returns normally.
C4_ResetMakesAbsent ==
  [][ last'.op = "reset" =>
        /\ ~has_ref(w'[last'.w].m_ptr)
        /\ ~operator_bool(w'[last'.w].m_ptr)
        /\ last'.kind = "none"
        /\ ~has_ref(w[last'.w].m_ptr) => w' = w ]_vars

C4_Witness ==
  /\ last.op = "reset" /\ last.pre # nullptr
  /\ w[last.w].st /\ w[last.w].m_ptr = nullptr

\* C5: operator* and operator-> on an absent wrapper never throw: built with
\* assert they abort; built with NDEBUG they make no check, and operator->
\* returns the null address.
C5_UncheckedNeverThrows ==
  (last.op \in Unchecked /\ last.pre = nullptr) =>
    /\ last.kind # "throw"
    /\ ~ndebug => last.kind = "abort"
    /\ ndebug => last.kind # "abort"
    /\ (ndebug /\ last.op = "operator_arrow") =>
         (last.kind = "value" /\ last.addr = nullptr)

C5_Witness ==
  /\ last.op = "operator_deref" /\ last.pre = nullptr
  /\ ~ndebug /\ last.kind = "abort"

\* C6: a default-constructed or nullref-constructed wrapper is absent; a
\* wrapper constructed from a raw address is present exactly when the address
\* is not null, and from a null address it is observably the nullref wrapper.
C6_ConstructorsFixPresence ==
  /\ last.op \in {"ctor_default", "ctor_nullref"} => ~has_ref(w[last.w].m_ptr)
  /\ last.op = "ctor_ptr" =>
       /\ has_ref(w[last.w].m_ptr) <=> last.addr # nullptr
       /\ last.addr = nullptr =>
            Observe(w[last.w].m_ptr, ndebug) = Observe(ctor_nullref, ndebug)

C6_Witness ==
  /\ last.op = "ctor_ptr" /\ last.addr = nullptr
  /\ w[last.w].st /\ ~has_ref(w[last.w].m_ptr)

\* C7: for every wrapper in every reachable state, has_ref(), the boolean
\* conversion and ptr() != nullptr agree, and when present ptr() is the
\* address ref() yields; the values the calls returned say the same.
C7_ObserversAgree ==
  /\ \A i \in Slots : w[i].st =>
       LET p == w[i].m_ptr
       IN  /\ has_ref(p) <=> operator_bool(p)
           /\ has_ref(p) <=> ptr(p) # nullptr
           /\ has_ref(p) => ref(p) = Ret("ref", ptr(p))
  /\ last.op \in {"has_ref", "operator_bool"} =>
       (last.b <=> ptr(w[last.w].m_ptr) # nullptr)
  /\ last.op = "ptr" => (last.addr # nullptr <=> has_ref(w[last.w].m_ptr))

C7_Witness ==
  /\ last.op = "operator_bool" /\ last.b
  /\ \E j \in Slots : w[j].st /\ ~has_ref(w[j].m_ptr)

\* C8: opt_ref(x) is observably the wrapper constructed from x, with the
\* constness of x; opt_cref(x) is a present optional_reference<const T> bound
\* to x whether or not x is const.
C8_FactoriesMatchConstruction ==
  /\ last.op = "opt_ref" =>
       /\ w[last.w].cq = last.b
       /\ Observe(w[last.w].m_ptr, ndebug) = Observe(ctor_ref(last.addr), ndebug)
  /\ last.op = "opt_cref" =>
       /\ w[last.w].cq
       /\ has_ref(w[last.w].m_ptr)
       /\ ptr(w[last.w].m_ptr) = last.addr

C8_Witness ==
  /\ last.op = "opt_ref" /\ ~last.b
  /\ w[last.w].m_ptr = last.addr /\ heap[last.addr].val = 1

\* C9: no operation on a wrapper changes the value or the liveness of any
\* object; an object changes only when the caller writes through a reference
\* an access returned, or ends the object's lifetime itself.
C9_NonOwning ==
  [][ heap' # heap =>
        \/ last'.op = "end_lifetime"
        \/ /\ last'.op = "write"
           /\ last.op \in {"ref"} \cup Unchecked
           /\ \A a \in Objs : a # last.addr => heap'[a] = heap[a]
           /\ heap'[last.addr].live = heap[last.addr].live ]_vars

C9_Witness ==
  /\ last.op = "destroy" /\ Live(last.pre)

\* C10: a wrapper that exists before and after a step holds a different
\* pointer afterwards only if the step was a rebind or a reset of that very
\* wrapper; observers, copies and conversions change no wrapper.
C10_OnlyRebindOrReset ==
  [][ \A j \in Slots :
        (w[j].st /\ w'[j].st /\ w'[j] # w[j]) =>
          (last'.op \in Rebinds \cup {"reset"} /\ last'.w = j) ]_vars

C10_Witness ==
  /\ last.op = "reset" /\ last.pre # nullptr
  /\ \E j \in Slots : j # last.w /\ w[j].st /\ w[j].m_ptr = last.pre

====
